---- MODULE Spec2Model ----
(***************************************************************************)
(* State-machine model of the university domain engine                     *)
(* (lab1/sources/models.py, lab1/sources/university.py) and of the         *)
(* snapshot persistence (sources/storage.py).                              *)
(*                                                                         *)
(* Objects are modelled as records held in heaps (studentObj, teacherObj)  *)
(* or in the University's own lists (curriculums, classrooms, exams).      *)
(* A reference to a Student or Teacher is its heap id, a reference to a    *)
(* Curriculum or Classroom is its position in the University list (these   *)
(* lists only grow), and 0 stands for Python's None.                       *)
(*                                                                         *)
(* Every method is a pure operator with the source's name that returns the *)
(* objects it mutated together with `raised`, the exception that left the  *)
(* call ("None" when it returned normally).  One action per call applies   *)
(* the operator to the state and records the call in `last`.               *)
(***************************************************************************)
EXTENDS Integers, Sequences, FiniteSets, TLC

VARIABLES
    curriculums,    \* University._curriculums : Seq([specialty_name, required_subjects])
    classrooms,     \* University._classrooms  : Seq([number, is_occupied])
    students,       \* University._students    : Seq(student id)
    teachers,       \* University._teachers    : Seq(teacher id)
    exams,          \* University._exams       : Seq([subject, teacher, classroom, registered_students])
    inventory,      \* Library._inventory      : insertion-ordered Seq([book, count])
    studentObj,     \* heap of Student objects : id -> [curriculum, scholarship_amount, record_book, borrowed_books]
    teacherObj,     \* heap of Teacher objects : id -> [subjects]
    db_file,        \* contents of DB_FILE on disk
    tmp_file,       \* contents of DB_FILE + ".tmp" on disk
    pc,             \* where the process stands (storage.py / main.py)
    roomLog,        \* per classroom, its last successful call: "none", "occupy" or "vacate"
    conducted,      \* per exam, the conduct() calls that returned normally: "never", "once" or "again"
    added,          \* per inventory entry, the total quantity add_book was given for it
    last            \* the call that produced the current state

vars == <<curriculums, classrooms, students, teachers, exams, inventory,
          studentObj, teacherObj, db_file, tmp_file, pc, roomLog, conducted,
          added, last>>

universityVars == <<curriculums, classrooms, students, teachers, exams>>
storageVars == <<db_file, tmp_file, pc>>

----------------------------------------------------------------------------
(* Bounds of the model *)

NumReaders == 2         \* Student objects in the library scenario
MaxCopies == 1          \* largest inventory count add_book may build up

----------------------------------------------------------------------------
(* Generic helpers for Python lists and dicts *)

Range(seq) == {seq[i] : i \in 1..Len(seq)}

Min(S) == CHOOSE x \in S : \A y \in S : x <= y

\* list.remove(x): drop the first occurrence of x
RemoveFirst(seq, x) ==
    LET i == Min({j \in 1..Len(seq) : seq[j] = x})
    IN  SubSeq(seq, 1, i - 1) \o SubSeq(seq, i + 1, Len(seq))

\* dict[key] = value
DictSet(d, key, value) ==
    [k \in DOMAIN d \cup {key} |-> IF k = key THEN value ELSE d[k]]

EmptyDict == [k \in {} |-> 0]

\* `rand` lists the values the call drew from random.randint
NoCall == [op |-> "init", args |-> <<>>, raised |-> "None", ret |-> <<>>, rand |-> <<>>]

Call(op, args, raised, ret) ==
    [op |-> op, args |-> args, raised |-> raised, ret |-> ret, rand |-> <<>>]

----------------------------------------------------------------------------
(* Book, Student *)

\* Book(title, author, isbn): a frozen value; isbn is a fresh uuid4 per
\* constructed Book, so two Books are equal iff they are the same isbn.
Book(title, isbn) == [title |-> title, isbn |-> isbn]

Books == {Book("1984", 1), Book("1984", 2), Book("Dune", 3)}
Titles == {"1984", "Dune"}

\* Student(full_name, age, _curriculum = curr)
Student(curr) ==
    [curriculum |-> curr, scholarship_amount |-> 0,
     record_book |-> EmptyDict, borrowed_books |-> <<>>]

\* borrow_book without the check for a book already held
borrow_book_allows_duplicate(self, book) ==
    [raised |-> "None",
     self |-> [self EXCEPT !.borrowed_books = Append(@, book)]]

\* Student.borrow_book
borrow_book(self, book) ==
    IF book \in Range(self.borrowed_books)
    THEN [raised |-> "ResourceError", self |-> self]
    ELSE [raised |-> "None",
          self |-> [self EXCEPT !.borrowed_books = Append(@, book)]]

\* Student.return_book
return_book(self, book) ==
    IF book \in Range(self.borrowed_books)
    THEN [raised |-> "None",
          self |-> [self EXCEPT !.borrowed_books = RemoveFirst(@, book)]]
    ELSE [raised |-> "ResourceError", self |-> self]

----------------------------------------------------------------------------
(* Library *)

\* `book in self.inventory` / position of the key in the dict, 0 if absent
KeyIndex(inv, book) ==
    IF \E i \in 1..Len(inv) : inv[i].book = book
    THEN Min({i \in 1..Len(inv) : inv[i].book = book})
    ELSE 0

\* next((b for b in self.inventory if b.title == book_title), None)
FindByTitle(inv, book_title) ==
    IF \E i \in 1..Len(inv) : inv[i].book.title = book_title
    THEN Min({i \in 1..Len(inv) : inv[i].book.title = book_title})
    ELSE 0

\* Library.add_book
add_book(inv, book, quantity) ==
    LET i == KeyIndex(inv, book)
    IN  IF i # 0
        THEN [inv EXCEPT ![i].count = @ + quantity]
        ELSE Append(inv, [book |-> book, count |-> quantity])

\* lend_book without the out-of-stock check
lend_book_no_stock_check(inv, student, book_title) ==
    LET i == FindByTitle(inv, book_title)
    IN  IF i = 0
        THEN [raised |-> "ResourceError", inventory |-> inv, student |-> student]
        ELSE LET b == borrow_book(student, inv[i].book)
             IN  IF b.raised # "None"
                 THEN [raised |-> b.raised, inventory |-> inv, student |-> b.self]
                 ELSE [raised |-> "None",
                       inventory |-> [inv EXCEPT ![i].count = @ - 1],
                       student |-> b.self]

\* lend_book that decrements the count before asking the student
lend_book_decrement_first(inv, student, book_title) ==
    LET i == FindByTitle(inv, book_title)
    IN  IF i = 0
        THEN [raised |-> "ResourceError", inventory |-> inv, student |-> student]
        ELSE IF inv[i].count <= 0
        THEN [raised |-> "ResourceError", inventory |-> inv, student |-> student]
        ELSE LET b == borrow_book(student, inv[i].book)
             IN  [raised |-> b.raised,
                  inventory |-> [inv EXCEPT ![i].count = @ - 1],
                  student |-> b.self]

\* lend_book that still lends when the count is 0
lend_book_lends_at_zero(inv, student, book_title) ==
    LET i == FindByTitle(inv, book_title)
    IN  IF i = 0
        THEN [raised |-> "ResourceError", inventory |-> inv, student |-> student]
        ELSE IF inv[i].count < 0
        THEN [raised |-> "ResourceError", inventory |-> inv, student |-> student]
        ELSE LET b == borrow_book(student, inv[i].book)
             IN  IF b.raised # "None"
                 THEN [raised |-> b.raised, inventory |-> inv, student |-> b.self]
                 ELSE [raised |-> "None",
                       inventory |-> [inv EXCEPT ![i].count = @ - 1],
                       student |-> b.self]

\* lend_book that looks for the first entry with the title that has a copy
lend_book_first_in_stock(inv, student, book_title) ==
    LET stocked == {j \in 1..Len(inv) :
                       inv[j].book.title = book_title /\ inv[j].count > 0}
    IN  IF stocked = {}
        THEN [raised |-> "ResourceError", inventory |-> inv, student |-> student]
        ELSE LET i == Min(stocked)
                 b == borrow_book(student, inv[i].book)
             IN  IF b.raised # "None"
                 THEN [raised |-> b.raised, inventory |-> inv, student |-> b.self]
                 ELSE [raised |-> "None",
                       inventory |-> [inv EXCEPT ![i].count = @ - 1],
                       student |-> b.self]

\* Library.lend_book
lend_book(inv, student, book_title) ==
    LET i == FindByTitle(inv, book_title)
    IN  IF i = 0
        THEN [raised |-> "ResourceError", inventory |-> inv, student |-> student]
        ELSE IF inv[i].count <= 0
        THEN [raised |-> "ResourceError", inventory |-> inv, student |-> student]
        ELSE LET b == borrow_book(student, inv[i].book)
             IN  IF b.raised # "None"
                 THEN [raised |-> b.raised, inventory |-> inv, student |-> b.self]
                 ELSE [raised |-> "None",
                       inventory |-> [inv EXCEPT ![i].count = @ - 1],
                       student |-> b.self]

\* accept_return that forgets to put the copy back
accept_return_no_increment(inv, student, book_title) ==
    LET i == FindByTitle(inv, book_title)
    IN  IF i = 0
        THEN [raised |-> "ResourceError", inventory |-> inv, student |-> student]
        ELSE IF inv[i].book \notin Range(student.borrowed_books)
        THEN [raised |-> "ResourceError", inventory |-> inv, student |-> student]
        ELSE LET r == return_book(student, inv[i].book)
             IN  [raised |-> r.raised, inventory |-> inv, student |-> r.self]

\* Library.accept_return
accept_return(inv, student, book_title) ==
    LET i == FindByTitle(inv, book_title)
    IN  IF i = 0
        THEN [raised |-> "ResourceError", inventory |-> inv, student |-> student]
        ELSE IF inv[i].book \notin Range(student.borrowed_books)
        THEN [raised |-> "ResourceError", inventory |-> inv, student |-> student]
        ELSE LET r == return_book(student, inv[i].book)
             IN  IF r.raised # "None"
                 THEN [raised |-> r.raised, inventory |-> inv, student |-> r.self]
                 ELSE [raised |-> "None",
                       inventory |-> [inv EXCEPT ![i].count = @ + 1],
                       student |-> r.self]

AddBook(book, quantity) ==
    /\ LET i == KeyIndex(inventory, book)
       IN  (IF i = 0 THEN 0 ELSE inventory[i].count) + quantity <= MaxCopies
    /\ inventory' = add_book(inventory, book, quantity)
    /\ added' = LET i == KeyIndex(inventory, book)
                IN  IF i # 0 THEN [added EXCEPT ![i] = @ + quantity]
                    ELSE Append(added, quantity)
    /\ last' = Call("add_book", <<>>, "None", <<>>)
    /\ UNCHANGED <<universityVars, roomLog, studentObj, teacherObj, storageVars,
                   conducted>>

LendBook(s, book_title) ==
    LET r == lend_book(inventory, studentObj[s], book_title)
    IN  /\ inventory' = r.inventory
        /\ studentObj' = [studentObj EXCEPT ![s] = r.student]
        /\ last' = Call("lend_book", <<>>, r.raised, <<>>)
        /\ UNCHANGED <<universityVars, roomLog, teacherObj, storageVars, conducted, added>>

AcceptReturn(s, book_title) ==
    LET r == accept_return(inventory, studentObj[s], book_title)
    IN  /\ inventory' = r.inventory
        /\ studentObj' = [studentObj EXCEPT ![s] = r.student]
        /\ last' = Call("accept_return", <<>>, r.raised, <<>>)
        /\ UNCHANGED <<universityVars, roomLog, teacherObj, storageVars, conducted, added>>

\* University("..."): every collection empty, nothing on disk
EmptyUniversity ==
    /\ curriculums = <<>>
    /\ classrooms = <<>>
    /\ students = <<>>
    /\ teachers = <<>>
    /\ exams = <<>>
    /\ inventory = <<>>
    /\ roomLog = <<>>
    /\ conducted = <<>>
    /\ added = <<>>

\* a file on disk: missing, opened for writing with the dump not complete,
\* or holding one complete pickled University
NoFile == [exists |-> FALSE, complete |-> FALSE, data |-> {}]
PartialFile == [exists |-> TRUE, complete |-> FALSE, data |-> {}]
FullFile(university) == [exists |-> TRUE, complete |-> TRUE, data |-> {university}]

\* a running process with no snapshot on disk
NoStorage ==
    /\ db_file = NoFile
    /\ tmp_file = NoFile
    /\ pc = "running"

\* TestLibrary.setUp: a Library() and Student("Reader", 20) objects
InitLibrary ==
    /\ EmptyUniversity
    /\ NoStorage
    /\ studentObj = [s \in 1..NumReaders |-> Student(0)]
    /\ teacherObj = <<>>
    /\ last = NoCall

NextLibrary ==
    \/ \E book \in Books, quantity \in 1..MaxCopies : AddBook(book, quantity)
    \/ \E s \in DOMAIN studentObj, t \in Titles : LendBook(s, t)
    \/ \E s \in DOMAIN studentObj, t \in Titles : AcceptReturn(s, t)

SpecLibrary == InitLibrary /\ [][NextLibrary]_vars

----------------------------------------------------------------------------
(* Curriculum, Classroom *)

\* Curriculum(_specialty_name, _required_subjects)
Curriculum(specialty_name, required_subjects) ==
    [specialty_name |-> specialty_name, required_subjects |-> required_subjects]

\* Classroom(number, capacity): _is_occupied defaults to False.  The capacity
\* is stored and never read by any operation; it is left out of the record.
Classroom(number) == [number |-> number, is_occupied |-> FALSE]

RoomNumbers == {101, 202, 303}

\* occupy that does not look at the flag
occupy_no_check(self) ==
    [raised |-> "None", self |-> [self EXCEPT !.is_occupied = TRUE]]

\* Classroom.occupy
occupy(self) ==
    IF self.is_occupied
    THEN [raised |-> "StateError", self |-> self]
    ELSE [raised |-> "None", self |-> [self EXCEPT !.is_occupied = TRUE]]

\* Classroom.vacate
vacate(self) ==
    IF ~self.is_occupied
    THEN [raised |-> "StateError", self |-> self]
    ELSE [raised |-> "None", self |-> [self EXCEPT !.is_occupied = FALSE]]

\* University.add_classroom
add_classroom(rooms, number) ==
    IF \E i \in 1..Len(rooms) : rooms[i].number = number
    THEN [raised |-> "ResourceError", classrooms |-> rooms]
    ELSE [raised |-> "None", classrooms |-> Append(rooms, Classroom(number))]

Occupy(c) ==
    LET r == occupy(classrooms[c])
    IN  /\ classrooms' = [classrooms EXCEPT ![c] = r.self]
        /\ roomLog' = IF r.raised = "None"
                      THEN [roomLog EXCEPT ![c] = "occupy"] ELSE roomLog
        /\ last' = Call("occupy", <<c>>, r.raised, <<>>)
        /\ UNCHANGED <<curriculums, students, teachers, exams, inventory,
                       studentObj, teacherObj, storageVars, conducted, added>>

Vacate(c) ==
    LET r == vacate(classrooms[c])
    IN  /\ classrooms' = [classrooms EXCEPT ![c] = r.self]
        /\ roomLog' = IF r.raised = "None"
                      THEN [roomLog EXCEPT ![c] = "vacate"] ELSE roomLog
        /\ last' = Call("vacate", <<c>>, r.raised, <<>>)
        /\ UNCHANGED <<curriculums, students, teachers, exams, inventory,
                       studentObj, teacherObj, storageVars, conducted, added>>

AddClassroom(number) ==
    LET r == add_classroom(classrooms, number)
    IN  /\ classrooms' = r.classrooms
        /\ roomLog' = IF r.raised = "None" THEN Append(roomLog, "none") ELSE roomLog
        /\ last' = Call("add_classroom", <<number>>, r.raised, <<>>)
        /\ UNCHANGED <<curriculums, students, teachers, exams, inventory,
                       studentObj, teacherObj, storageVars, conducted, added>>

\* TestUniversity: a University("TestUni") to which classrooms are added
InitClassroom ==
    /\ EmptyUniversity
    /\ NoStorage
    /\ studentObj = <<>>
    /\ teacherObj = <<>>
    /\ last = NoCall

NextClassroom ==
    \/ \E number \in RoomNumbers : AddClassroom(number)
    \/ \E c \in 1..Len(classrooms) : Occupy(c)
    \/ \E c \in 1..Len(classrooms) : Vacate(c)

SpecClassroom == InitClassroom /\ [][NextClassroom]_vars

----------------------------------------------------------------------------
(* Student.take_exam *)

NumStudents == 2        \* Student objects in the grading scenarios

Subjects == {"OOP", "Math"}

\* grades handed to take_exam: both sides of each end of the 0..10 range
GradeInputs == {-1, 0, 5, 10, 11}

\* take_exam that looks at the curriculum before the grade
take_exam_curriculum_first(curs, self, subject_name, grade) ==
    IF self.curriculum # 0
       /\ subject_name \notin Range(curs[self.curriculum].required_subjects)
    THEN [raised |-> "EnrollmentError", self |-> self]
    ELSE IF ~(0 <= grade /\ grade <= 10)
    THEN [raised |-> "ValueError", self |-> self]
    ELSE [raised |-> "None",
          self |-> [self EXCEPT !.record_book = DictSet(@, subject_name, grade)]]

\* take_exam that keeps a grade already recorded for the subject
take_exam_keeps_first_grade(curs, self, subject_name, grade) ==
    IF ~(0 <= grade /\ grade <= 10)
    THEN [raised |-> "ValueError", self |-> self]
    ELSE IF self.curriculum # 0
            /\ subject_name \notin Range(curs[self.curriculum].required_subjects)
    THEN [raised |-> "EnrollmentError", self |-> self]
    ELSE IF subject_name \in DOMAIN self.record_book
    THEN [raised |-> "None", self |-> self]
    ELSE [raised |-> "None",
          self |-> [self EXCEPT !.record_book = DictSet(@, subject_name, grade)]]

\* Student.take_exam; curs is the list that self.curriculum points into
take_exam(curs, self, subject_name, grade) ==
    IF ~(0 <= grade /\ grade <= 10)
    THEN [raised |-> "ValueError", self |-> self]
    ELSE IF self.curriculum # 0
            /\ subject_name \notin Range(curs[self.curriculum].required_subjects)
    THEN [raised |-> "EnrollmentError", self |-> self]
    ELSE [raised |-> "None",
          self |-> [self EXCEPT !.record_book = DictSet(@, subject_name, grade)]]

TakeExam(s, subject_name, grade) ==
    LET r == take_exam(curriculums, studentObj[s], subject_name, grade)
    IN  /\ studentObj' = [studentObj EXCEPT ![s] = r.self]
        /\ last' = Call("take_exam", <<s, subject_name, grade>>, r.raised, <<>>)
        /\ UNCHANGED <<universityVars, roomLog, inventory, teacherObj, storageVars, conducted, added>>

\* TestExamProcess.setUp: curriculum "IT" with the subject "OOP", one teacher,
\* one classroom.  The students with an odd id are enrolled in "IT", those
\* with an even id are Student(name, age) objects without a curriculum.
ExamFixture ==
    /\ curriculums = <<Curriculum("IT", <<"OOP">>)>>
    /\ classrooms = <<Classroom(101)>>
    /\ roomLog = <<"none">>
    /\ studentObj = [s \in 1..NumStudents |-> Student(IF s % 2 = 1 THEN 1 ELSE 0)]
    /\ students = [s \in 1..NumStudents |-> s]
    /\ teacherObj = <<[subjects |-> <<"OOP", "Math">>]>>
    /\ teachers = <<1>>
    /\ inventory = <<>>
    /\ added = <<>>

InitStudent ==
    /\ ExamFixture
    /\ exams = <<>>
    /\ conducted = <<>>
    /\ NoStorage
    /\ last = NoCall

NextStudent ==
    \E s \in DOMAIN studentObj, subject_name \in Subjects, grade \in GradeInputs :
        TakeExam(s, subject_name, grade)

SpecStudent == InitStudent /\ [][NextStudent]_vars

----------------------------------------------------------------------------
(* Teacher, Exam *)

\* randint(1, 10) and the pass mark of Exam.conduct
GradeLow == 1
GradeHigh == 10
PassGrade == 4

\* the values the model lets randint return: the ends of its range and both
\* sides of the pass mark
Grades == {GradeLow, PassGrade - 1, PassGrade, GradeHigh}

\* Teacher.evaluate_student
evaluate_student(curs, student, subject, grade) ==
    take_exam(curs, student, subject, grade)

\* Exam(_subject, _date, _teacher, _classroom, _registered_students)
Exam(subject, teacher, classroom, registered_students) ==
    [subject |-> subject, teacher |-> teacher, classroom |-> classroom,
     registered_students |-> registered_students]

\* the grading loop with the pass mark one too high
RECURSIVE ConductLoop_pass_mark_off(_, _, _, _, _, _)
ConductLoop_pass_mark_off(curs, heap, exam, rand, i, students_to_expel) ==
    IF i > Len(exam.registered_students)
    THEN [raised |-> "None", studentObj |-> heap,
          students_to_expel |-> students_to_expel, drawn |-> i - 1]
    ELSE LET student == exam.registered_students[i]
             grade == rand[i]
             e == evaluate_student(curs, heap[student], exam.subject, grade)
         IN  IF e.raised # "None"
             THEN [raised |-> e.raised, studentObj |-> heap,
                   students_to_expel |-> students_to_expel, drawn |-> i]
             ELSE ConductLoop_pass_mark_off(curs, [heap EXCEPT ![student] = e.self],
                      exam, rand, i + 1,
                      IF grade <= PassGrade
                      THEN Append(students_to_expel, student)
                      ELSE students_to_expel)

\* the loop of Exam.conduct from its i-th student on; rand[i] is the value
\* randint returns for the i-th student, drawn counts the calls of randint
RECURSIVE ConductLoop(_, _, _, _, _, _)
ConductLoop(curs, heap, exam, rand, i, students_to_expel) ==
    IF i > Len(exam.registered_students)
    THEN [raised |-> "None", studentObj |-> heap,
          students_to_expel |-> students_to_expel, drawn |-> i - 1]
    ELSE LET student == exam.registered_students[i]
             grade == rand[i]
             e == evaluate_student(curs, heap[student], exam.subject, grade)
         IN  IF e.raised # "None"
             THEN [raised |-> e.raised, studentObj |-> heap,
                   students_to_expel |-> students_to_expel, drawn |-> i]
             ELSE ConductLoop(curs, [heap EXCEPT ![student] = e.self],
                      exam, rand, i + 1,
                      IF grade < PassGrade
                      THEN Append(students_to_expel, student)
                      ELSE students_to_expel)

\* conduct that vacates the classroom in a `finally` around the whole body,
\* the failed occupy included
conduct_vacate_on_error(curs, rooms, log, heap, exam, rand) ==
    LET c == exam.classroom
        o == occupy(rooms[c])
        l == ConductLoop(curs, heap, exam, rand, 1, <<>>)
    IN  IF o.raised # "None"
        THEN [raised |-> o.raised,
              classrooms |-> [rooms EXCEPT ![c].is_occupied = FALSE],
              roomLog |-> [log EXCEPT ![c] = "vacate"],
              studentObj |-> heap, ret |-> <<>>, drawn |-> 0]
        ELSE [raised |-> l.raised,
              classrooms |-> [rooms EXCEPT ![c].is_occupied = FALSE],
              roomLog |-> [log EXCEPT ![c] = "vacate"],
              studentObj |-> l.studentObj,
              ret |-> IF l.raised = "None" THEN l.students_to_expel ELSE <<>>,
              drawn |-> l.drawn]

\* Exam.conduct: occupy, grade every registered student, vacate, return the
\* students to expel.  An exception leaves the method at the call that
\* raised it; nothing after that call runs.
conduct(curs, rooms, log, heap, exam, rand) ==
    LET c == exam.classroom
        o == occupy(rooms[c])
    IN  IF o.raised # "None"
        THEN [raised |-> o.raised, classrooms |-> rooms, roomLog |-> log,
              studentObj |-> heap, ret |-> <<>>, drawn |-> 0]
        ELSE LET occupied == [rooms EXCEPT ![c] = o.self]
                 l == ConductLoop(curs, heap, exam, rand, 1, <<>>)
             IN  IF l.raised # "None"
                 THEN [raised |-> l.raised, classrooms |-> occupied,
                       roomLog |-> [log EXCEPT ![c] = "occupy"],
                       studentObj |-> l.studentObj, ret |-> <<>>,
                       drawn |-> l.drawn]
                 ELSE LET v == vacate(occupied[c])
                      IN  IF v.raised # "None"
                          THEN [raised |-> v.raised, classrooms |-> occupied,
                                roomLog |-> [log EXCEPT ![c] = "occupy"],
                                studentObj |-> l.studentObj, ret |-> <<>>,
                                drawn |-> l.drawn]
                          ELSE [raised |-> "None",
                                classrooms |-> [occupied EXCEPT ![c] = v.self],
                                roomLog |-> [log EXCEPT ![c] = "vacate"],
                                studentObj |-> l.studentObj,
                                ret |-> l.students_to_expel,
                                drawn |-> l.drawn]

Conduct(e) ==
    \E rand \in [1..Len(exams[e].registered_students) -> Grades] :
        LET r == conduct(curriculums, classrooms, roomLog, studentObj, exams[e], rand)
        IN  /\ classrooms' = r.classrooms
            /\ roomLog' = r.roomLog
            /\ studentObj' = r.studentObj
            /\ conducted' = IF r.raised = "None"
                            THEN [conducted EXCEPT
                                     ![e] = IF @ = "never" THEN "once" ELSE "again"]
                            ELSE conducted
            /\ last' = [op |-> "conduct", args |-> <<e>>, raised |-> r.raised,
                        ret |-> r.ret, rand |-> SubSeq(rand, 1, r.drawn)]
            /\ UNCHANGED <<curriculums, students, teachers, exams, inventory,
                           teacherObj, storageVars, added>>

\* lists of distinct elements of S
Rosters(S) ==
    UNION {{f \in [1..n -> S] : \A i, j \in 1..n : i # j => f[i] # f[j]} :
              n \in 0..Cardinality(S)}

\* TestExamProcess.setUp: one Exam, on any subject the teacher teaches and
\* with any list of the students as its roster
InitExam ==
    /\ ExamFixture
    /\ exams \in {<<Exam(subject, 1, 1, roster)>> :
                     subject \in Subjects, roster \in Rosters(DOMAIN studentObj)}
    /\ conducted = <<"never">>
    /\ NoStorage
    /\ last = NoCall

NextExam ==
    \/ \E e \in 1..Len(exams) : Conduct(e)
    \/ \E c \in 1..Len(classrooms) : Occupy(c)
    \/ \E c \in 1..Len(classrooms) : Vacate(c)

SpecExam == InitExam /\ [][NextExam]_vars

----------------------------------------------------------------------------
(* storage.py: save_data, load_data; main.py: the process around them *)

\* what pickle.dump(university, f) writes and pickle.load(f) gives back:
\* the University with every object reachable from it
Snapshot ==
    [curriculums |-> curriculums, classrooms |-> classrooms,
     students |-> students, teachers |-> teachers, exams |-> exams,
     inventory |-> inventory, studentObj |-> studentObj,
     teacherObj |-> teacherObj]

\* _create_default_university (names transliterated)
DefaultUniversity ==
    [curriculums |->
        <<Curriculum("SUI", <<"BD", "APEC", "OOP", "OAiP">>),
          Curriculum("II", <<"MOIS", "PPOIS", "LOIS", "OAiP">>),
          Curriculum("VMiP", <<"DM", "RIK", "OOPiP", "OAiP">>)>>,
     classrooms |->
        <<Classroom(114), Classroom(312), Classroom(503), Classroom(408),
          Classroom(721)>>,
     students |-> [s \in 1..12 |-> s],
     teachers |-> [t \in 1..7 |-> t],
     exams |-> <<>>,
     inventory |->
        <<[book |-> Book("Voina i mir", 101), count |-> 5],
          [book |-> Book("Prestuplenie i nakazanie", 102), count |-> 3],
          [book |-> Book("Master i Margarita", 103), count |-> 2],
          [book |-> Book("1984", 104), count |-> 4]>>,
     studentObj |->
        [s \in 1..12 |-> Student(<<1, 2, 3, 2, 1, 2, 3, 2, 3, 1, 1, 2>>[s])],
     teacherObj |->
        <<[subjects |-> <<"BD", "MOIS", "LOIS">>],
          [subjects |-> <<"MOIS", "LOIS">>],
          [subjects |-> <<"OOP", "OOPiP", "PPOIS", "OAiP">>],
          [subjects |-> <<"PPOIS", "OAiP", "BD", "DM">>],
          [subjects |-> <<"APEC", "RIK">>],
          [subjects |-> <<"APEC", "OOPiP", "OOP">>],
          [subjects |-> <<"RIK", "DM", "OAiP">>]>>]

\* load_data: the default University when DB_FILE is missing, or when
\* pickle.load raises on it
load_data(db) ==
    IF ~db.exists THEN DefaultUniversity
    ELSE IF ~db.complete THEN DefaultUniversity
    ELSE CHOOSE university \in db.data : TRUE

SaveSteps == {"save_dump", "save_remove", "save_rename"}

\* main(): uni = load_data()
LoadData ==
    /\ pc = "stopped"
    /\ LET uni == load_data(db_file)
       IN  /\ curriculums' = uni.curriculums
           /\ classrooms' = uni.classrooms
           /\ students' = uni.students
           /\ teachers' = uni.teachers
           /\ exams' = uni.exams
           /\ inventory' = uni.inventory
           /\ studentObj' = uni.studentObj
           /\ teacherObj' = uni.teacherObj
           /\ roomLog' = [c \in 1..Len(uni.classrooms) |-> "none"]
           /\ conducted' = [e \in 1..Len(uni.exams) |-> "never"]
           /\ added' = [i \in 1..Len(uni.inventory) |-> uni.inventory[i].count]
    /\ pc' = "running"
    /\ last' = Call("load_data", <<>>, "None", <<>>)
    /\ UNCHANGED <<db_file, tmp_file>>

\* save_data: open(temp_file, "wb") creates or truncates the temp file.
\* `last` keeps what DB_FILE held when save_data was entered.
SaveOpen ==
    /\ pc = "running"
    /\ tmp_file' = PartialFile
    /\ pc' = "save_dump"
    /\ last' = Call("save_data", <<db_file>>, "None", <<>>)
    /\ UNCHANGED <<universityVars, roomLog, inventory, studentObj, teacherObj,
                   db_file, conducted, added>>

\* save_data: pickle.dump(university, f) and the close of the file
SaveDump ==
    /\ pc = "save_dump"
    /\ tmp_file' = FullFile(Snapshot)
    /\ pc' = "save_remove"
    /\ UNCHANGED <<universityVars, roomLog, inventory, studentObj, teacherObj,
                   db_file, conducted, added, last>>

\* save_data: if os.path.exists(DB_FILE): os.remove(DB_FILE)
SaveRemove ==
    /\ pc = "save_remove"
    /\ db_file' = NoFile
    /\ pc' = "save_rename"
    /\ UNCHANGED <<universityVars, roomLog, inventory, studentObj, teacherObj,
                   tmp_file, conducted, added, last>>

\* save_data: os.rename(temp_file, DB_FILE)
SaveRename ==
    /\ pc = "save_rename"
    /\ db_file' = tmp_file
    /\ tmp_file' = NoFile
    /\ pc' = "saved"
    /\ UNCHANGED <<universityVars, roomLog, inventory, studentObj, teacherObj,
                   conducted, added, last>>

\* the process is gone: nothing is left in memory, the files stay
ProcessEnds ==
    /\ curriculums' = <<>>
    /\ classrooms' = <<>>
    /\ students' = <<>>
    /\ teachers' = <<>>
    /\ exams' = <<>>
    /\ inventory' = <<>>
    /\ studentObj' = <<>>
    /\ teacherObj' = <<>>
    /\ roomLog' = <<>>
    /\ conducted' = <<>>
    /\ added' = <<>>
    /\ pc' = "stopped"
    /\ UNCHANGED <<db_file, tmp_file>>

\* main(): sys.exit(0) after save_data returned
Exit ==
    /\ pc = "saved"
    /\ ProcessEnds
    /\ last' = Call("exit", <<>>, "None", <<>>)

\* the process is killed (power loss, kill -9) wherever it stands; `last`
\* keeps where it stood, what DB_FILE held when the interrupted save_data
\* was entered, and the University that was in memory
Crash ==
    /\ pc # "stopped"
    /\ ProcessEnds
    /\ last' = Call("crash",
                    <<pc, IF pc \in SaveSteps THEN last.args[1] ELSE db_file, Snapshot>>,
                    "None", <<>>)

\* nothing has run yet: no file on disk, no process
InitStorage ==
    /\ EmptyUniversity
    /\ studentObj = <<>>
    /\ teacherObj = <<>>
    /\ db_file = NoFile
    /\ tmp_file = NoFile
    /\ pc = "stopped"
    /\ last = NoCall

NextStorage ==
    \/ LoadData
    \/ \E number \in RoomNumbers : pc = "running" /\ AddClassroom(number)
    \/ SaveOpen
    \/ SaveDump
    \/ SaveRemove
    \/ SaveRename
    \/ Exit
    \/ Crash

SpecStorage == InitStorage /\ [][NextStorage]_vars

----------------------------------------------------------------------------
(* University: curricula and enrollment *)

MaxEnrolled == 2        \* Student objects enroll_student may create

\* the names given to add_curriculum and enroll_student: one name in two
\* spellings of case, another name, and two blank ones
SpecialtyNames == {"CS", "cs", "IT", "", "   "}

\* str.lower() on these names
lower(name) ==
    CASE name = "CS" -> "cs"
      [] name = "IT" -> "it"
      [] OTHER -> name

\* str.strip() on these names
strip(name) ==
    CASE name = "   " -> ""
      [] OTHER -> name

\* get_curriculum that compares the names as they are written
get_curriculum_case_sensitive(curs, name) ==
    IF \E i \in 1..Len(curs) : curs[i].specialty_name = name
    THEN Min({i \in 1..Len(curs) : curs[i].specialty_name = name})
    ELSE 0

\* University.get_curriculum: the first curriculum whose lowered name equals
\* the lowered argument, 0 (None) if there is none
get_curriculum(curs, name) ==
    IF \E i \in 1..Len(curs) : lower(curs[i].specialty_name) = lower(name)
    THEN Min({i \in 1..Len(curs) : lower(curs[i].specialty_name) = lower(name)})
    ELSE 0

\* University.enroll_student; heap is where the new Student object is
\* allocated, ret is the reference returned
enroll_student(curs, studs, heap, curriculum_name) ==
    LET curr == get_curriculum(curs, curriculum_name)
    IN  IF curr = 0
        THEN [raised |-> "EnrollmentError", students |-> studs,
              studentObj |-> heap, ret |-> <<>>]
        ELSE LET new_student == Len(heap) + 1
             IN  [raised |-> "None",
                  students |-> Append(studs, new_student),
                  studentObj |-> Append(heap, Student(curr)),
                  ret |-> <<new_student>>]

\* add_curriculum without the check for an existing curriculum
add_curriculum_no_duplicate_check(curs, specialty_name) ==
    IF strip(specialty_name) = ""
    THEN [raised |-> "ValueError", curriculums |-> curs]
    ELSE [raised |-> "None",
          curriculums |-> Append(curs, Curriculum(specialty_name, <<>>))]

\* University.add_curriculum
add_curriculum(curs, specialty_name) ==
    IF strip(specialty_name) = ""
    THEN [raised |-> "ValueError", curriculums |-> curs]
    ELSE IF get_curriculum(curs, specialty_name) # 0
    THEN [raised |-> "ResourceError", curriculums |-> curs]
    ELSE [raised |-> "None",
          curriculums |-> Append(curs, Curriculum(specialty_name, <<>>))]

EnrollStudent(curriculum_name) ==
    /\ Len(studentObj) < MaxEnrolled
    /\ LET r == enroll_student(curriculums, students, studentObj, curriculum_name)
       IN  /\ students' = r.students
           /\ studentObj' = r.studentObj
           /\ last' = Call("enroll_student", <<curriculum_name>>, r.raised, r.ret)
    /\ UNCHANGED <<curriculums, classrooms, teachers, exams, inventory, roomLog,
                   teacherObj, storageVars, conducted, added>>

AddCurriculum(specialty_name) ==
    LET r == add_curriculum(curriculums, specialty_name)
    IN  /\ curriculums' = r.curriculums
        /\ last' = Call("add_curriculum", <<specialty_name>>, r.raised, <<>>)
        /\ UNCHANGED <<classrooms, students, teachers, exams, inventory, roomLog,
                       studentObj, teacherObj, storageVars, conducted, added>>

\* University("TestUni"): no curriculum, no student yet
InitEnroll ==
    /\ EmptyUniversity
    /\ NoStorage
    /\ studentObj = <<>>
    /\ teacherObj = <<>>
    /\ last = NoCall

NextEnroll ==
    \/ \E specialty_name \in SpecialtyNames : AddCurriculum(specialty_name)
    \/ \E curriculum_name \in SpecialtyNames : EnrollStudent(curriculum_name)

SpecEnroll == InitEnroll /\ [][NextEnroll]_vars

----------------------------------------------------------------------------
(* University: exams, expulsion and dismissal *)

MaxExams == 1           \* Exam objects create_exam may register

\* subjects asked of create_exam: those of the fixture's teacher and one
\* the teacher does not teach
ExamSubjects == Subjects \cup {"History"}

\* create_exam without the check of the teacher's subjects
create_exam_no_teacher_check(exs, heap, subject, teacher, classroom, studs) ==
    [raised |-> "None",
     exams |-> Append(exs, Exam(subject, teacher, classroom, studs)),
     ret |-> <<Len(exs) + 1>>]

\* University.create_exam; heap holds the Teacher objects
create_exam(exs, heap, subject, teacher, classroom, studs) ==
    IF subject \notin Range(heap[teacher].subjects)
    THEN [raised |-> "EnrollmentError", exams |-> exs, ret |-> <<>>]
    ELSE [raised |-> "None",
          exams |-> Append(exs, Exam(subject, teacher, classroom, studs)),
          ret |-> <<Len(exs) + 1>>]

\* expel_student that treats a student who is not on the list as an error
expel_student_raises_if_absent(studs, student) ==
    IF student \in Range(studs)
    THEN [raised |-> "None", students |-> RemoveFirst(studs, student)]
    ELSE [raised |-> "ResourceError", students |-> studs]

\* University.expel_student
expel_student(studs, student) ==
    IF student \in Range(studs)
    THEN [raised |-> "None", students |-> RemoveFirst(studs, student)]
    ELSE [raised |-> "None", students |-> studs]

\* University.fire_teacher
fire_teacher(tchs, teacher) ==
    IF teacher \in Range(tchs)
    THEN [raised |-> "None", teachers |-> RemoveFirst(tchs, teacher)]
    ELSE [raised |-> "None", teachers |-> tchs]

CreateExam(subject, teacher, classroom, studs) ==
    /\ Len(exams) < MaxExams
    /\ LET r == create_exam(exams, teacherObj, subject, teacher, classroom, studs)
       IN  /\ exams' = r.exams
           /\ conducted' = IF r.raised = "None"
                           THEN Append(conducted, "never") ELSE conducted
           /\ last' = Call("create_exam", <<subject, teacher, classroom, studs>>,
                           r.raised, r.ret)
    /\ UNCHANGED <<curriculums, classrooms, students, teachers, inventory,
                   roomLog, studentObj, teacherObj, storageVars, added>>

ExpelStudent(student) ==
    LET r == expel_student(students, student)
    IN  /\ students' = r.students
        /\ last' = Call("expel_student", <<student>>, r.raised, <<>>)
        /\ UNCHANGED <<curriculums, classrooms, teachers, exams, inventory,
                       roomLog, studentObj, teacherObj, storageVars, conducted,
                       added>>

FireTeacher(teacher) ==
    LET r == fire_teacher(teachers, teacher)
    IN  /\ teachers' = r.teachers
        /\ last' = Call("fire_teacher", <<teacher>>, r.raised, <<>>)
        /\ UNCHANGED <<curriculums, classrooms, students, exams, inventory,
                       roomLog, studentObj, teacherObj, storageVars, conducted,
                       added>>

\* the lists of students handed to create_exam: the first n Student objects
RosterInputs ==
    {[i \in 1..n |-> i] : n \in 0..Len(studentObj)}

\* TestUniversity.test_create_exam: the fixture with no exam yet.  Rooms are
\* occupied and vacated and grades are recorded around the create_exam calls.
InitCreate ==
    /\ ExamFixture
    /\ exams = <<>>
    /\ conducted = <<>>
    /\ NoStorage
    /\ last = NoCall

NextCreate ==
    \/ \E subject \in ExamSubjects, teacher \in DOMAIN teacherObj,
          classroom \in 1..Len(classrooms), studs \in RosterInputs :
            CreateExam(subject, teacher, classroom, studs)
    \/ \E c \in 1..Len(classrooms) : Occupy(c)
    \/ \E c \in 1..Len(classrooms) : Vacate(c)
    \/ \E s \in DOMAIN studentObj : TakeExam(s, "OOP", 5)

SpecCreate == InitCreate /\ [][NextCreate]_vars

\* TestExamProcess: one exam exists; students are expelled, teachers fired
\* and the exam conducted in any order
NextRemoval ==
    \/ \E e \in 1..Len(exams) : Conduct(e)
    \/ \E student \in DOMAIN studentObj : ExpelStudent(student)
    \/ \E teacher \in DOMAIN teacherObj : FireTeacher(teacher)

\* TestExamProcess with the exam already created: two students, the first
\* with the curriculum "IT", one teacher, one classroom, one exam
InitRemoval ==
    /\ curriculums = <<Curriculum("IT", <<"OOP">>)>>
    /\ classrooms = <<Classroom(101)>>
    /\ roomLog = <<"none">>
    /\ studentObj = <<Student(1), Student(0)>>
    /\ students = <<1, 2>>
    /\ teacherObj = <<[subjects |-> <<"OOP", "Math">>]>>
    /\ teachers = <<1>>
    /\ inventory = <<>>
    /\ added = <<>>
    /\ exams \in {<<Exam(subject, 1, 1, roster)>> :
                     subject \in Subjects, roster \in Rosters(DOMAIN studentObj)}
    /\ conducted = <<"never">>
    /\ NoStorage
    /\ last = NoCall

SpecRemoval == InitRemoval /\ [][NextRemoval]_vars

----------------------------------------------------------------------------
(* ScholarshipDepartment, University.process_semester_end *)

\* ScholarshipDepartment(): _min_average_score = 6.0, _base_amount = 100.0;
\* the bonus is 0.1 of the base per point of average above the minimum
MinAverageScore == 6
BaseAmount == 100
PointsPerBase == 10

\* Amounts of money are counted in hundredths, the precision of round(x, 2).
Hundredths == 100

\* Student.average_score as the fraction num / den; 0.0 is 0 / 1
average_score(self) ==
    LET subjects == DOMAIN self.record_book
        RECURSIVE Sum(_)
        Sum(S) == IF S = {} THEN 0
                  ELSE LET k == CHOOSE k \in S : TRUE
                       IN  self.record_book[k] + Sum(S \ {k})
    IN  IF subjects = {} THEN [num |-> 0, den |-> 1]
        ELSE [num |-> Sum(subjects), den |-> Cardinality(subjects)]

\* round(num / den, 0) for num >= 0: to the nearest integer, a tie to the
\* even one
RoundHalfEven(num, den) ==
    LET q == num \div den
        r == num % den
    IN  IF 2 * r < den THEN q
        ELSE IF 2 * r > den THEN q + 1
        ELSE IF q % 2 = 0 THEN q ELSE q + 1

\* round(self.base_amount * (1 + bonus), 2), in hundredths, where
\* bonus = (average_score - self.min_average_score) * 0.1
final_amount(avg) ==
    RoundHalfEven(
        Hundredths * BaseAmount
            * (PointsPerBase * avg.den + (avg.num - MinAverageScore * avg.den)),
        PointsPerBase * avg.den)

\* Student.assign_scholarship
assign_scholarship(self, amount) == [self EXCEPT !.scholarship_amount = amount]

\* calculate_and_assign that leaves a student below the minimum alone
RECURSIVE calculate_and_assign_keeps_old_award(_, _)
calculate_and_assign_keeps_old_award(heap, studs) ==
    IF studs = <<>> THEN heap
    ELSE LET student == Head(studs)
             avg == average_score(heap[student])
         IN  calculate_and_assign_keeps_old_award(
                 IF avg.num >= MinAverageScore * avg.den
                 THEN [heap EXCEPT ![student] = assign_scholarship(@, final_amount(avg))]
                 ELSE heap,
                 Tail(studs))

\* ScholarshipDepartment.calculate_and_assign: the loop over the list
RECURSIVE calculate_and_assign(_, _)
calculate_and_assign(heap, studs) ==
    IF studs = <<>> THEN heap
    ELSE LET student == Head(studs)
             avg == average_score(heap[student])
         IN  calculate_and_assign(
                 IF avg.num >= MinAverageScore * avg.den
                 THEN [heap EXCEPT ![student] = assign_scholarship(@, final_amount(avg))]
                 ELSE [heap EXCEPT ![student] = assign_scholarship(@, 0)],
                 Tail(studs))

\* University.process_semester_end
process_semester_end(heap, studs) ==
    IF studs = <<>> THEN heap ELSE calculate_and_assign(heap, studs)

CalculateAndAssign(studs) ==
    /\ studentObj' = calculate_and_assign(studentObj, studs)
    /\ last' = Call("calculate_and_assign", <<studs>>, "None", <<>>)
    /\ UNCHANGED <<universityVars, roomLog, inventory, teacherObj, storageVars,
                   conducted, added>>

ProcessSemesterEnd ==
    /\ studentObj' = process_semester_end(studentObj, students)
    /\ last' = Call("process_semester_end", <<>>, "None", <<>>)
    /\ UNCHANGED <<universityVars, roomLog, inventory, teacherObj, storageVars,
                   conducted, added>>

\* the subjects and grades in the record books of the scholarship scenario
ScholarSubjects == <<"A", "B", "C">>
ScholarGrades == {4, 8, 10}

\* record books with the first n of the subjects, for every n
RecordBooks ==
    UNION {[{ScholarSubjects[i] : i \in 1..n} -> ScholarGrades] : n \in 0..Len(ScholarSubjects)}

\* TestScholarship.setUp: the two students "Good" and "Bad", with any of the
\* record books and with or without an award from an earlier semester
InitScholarship ==
    /\ curriculums = <<>>
    /\ classrooms = <<>>
    /\ roomLog = <<>>
    /\ teachers = <<>>
    /\ exams = <<>>
    /\ conducted = <<>>
    /\ inventory = <<>>
    /\ added = <<>>
    /\ NoStorage
    /\ studentObj \in
          [{1, 2} -> {[Student(0) EXCEPT !.record_book = book,
                                         !.scholarship_amount = amount] :
                         book \in RecordBooks,
                         amount \in {0, Hundredths * BaseAmount}}]
    /\ students = <<1, 2>>
    /\ teacherObj = <<>>
    /\ last = NoCall

NextScholarship ==
    \/ \E studs \in Rosters(DOMAIN studentObj) : CalculateAndAssign(studs)
    \/ ProcessSemesterEnd
    \/ \E student \in DOMAIN studentObj : ExpelStudent(student)

SpecScholarship == InitScholarship /\ [][NextScholarship]_vars

----------------------------------------------------------------------------
(* The interactive shell: handle_functions.py under the loop of main.py *)

\* Curriculum.add_subject
add_subject(self, subject_name) ==
    IF strip(subject_name) = ""
    THEN [raised |-> "ValueError", self |-> self]
    ELSE IF subject_name \notin Range(self.required_subjects)
    THEN [raised |-> "None",
          self |-> [self EXCEPT !.required_subjects = Append(@, subject_name)]]
    ELSE [raised |-> "None", self |-> self]

\* for student in students_to_expel: uni.expel_student(student)
RECURSIVE ExpelAll(_, _)
ExpelAll(studs, students_to_expel) ==
    IF students_to_expel = <<>> THEN studs
    ELSE ExpelAll(expel_student(studs, Head(students_to_expel)).students,
                  Tail(students_to_expel))

\* what conduct_exam leaves behind when it ends at a given point
ShellOutcome(raised, rooms, log, studs, exs, heap, ret, drawn) ==
    [raised |-> raised, classrooms |-> rooms, roomLog |-> log,
     students |-> studs, exams |-> exs, studentObj |-> heap, ret |-> ret,
     drawn |-> drawn]

\* conduct_exam that registers every student of the University for the exam
conduct_exam_all_students(curs, rooms, log, studs, tchs, exs, heap, heapT, subject, rand) ==
    LET teaching == {i \in 1..Len(tchs) : subject \in Range(heapT[tchs[i]].subjects)}
        free == {c \in 1..Len(rooms) : ~rooms[c].is_occupied}
        eligible_students == studs
        unchanged == ShellOutcome("None", rooms, log, studs, exs, heap, <<>>, 0)
    IN  IF teaching = {}
        THEN [unchanged EXCEPT !.raised = "EnrollmentError"]
        ELSE IF free = {}
        THEN [unchanged EXCEPT !.raised = "StateError"]
        ELSE IF eligible_students = <<>>
        THEN [unchanged EXCEPT !.raised = "EnrollmentError"]
        ELSE LET x == create_exam(exs, heapT, subject, tchs[Min(teaching)],
                                  Min(free), eligible_students)
             IN  IF x.raised # "None"
                 THEN [unchanged EXCEPT !.raised = x.raised]
                 ELSE LET c == conduct(curs, rooms, log, heap,
                                       x.exams[x.ret[1]], rand)
                      IN  IF c.raised # "None"
                          THEN ShellOutcome(c.raised, c.classrooms, c.roomLog, studs,
                                            x.exams, c.studentObj, <<>>, c.drawn)
                          ELSE ShellOutcome("None", c.classrooms, c.roomLog,
                                            ExpelAll(studs, c.ret), x.exams,
                                            c.studentObj, c.ret, c.drawn)

\* handle_functions.conduct_exam; an exception leaves it at the call that
\* raised, with everything done until then in place
conduct_exam(curs, rooms, log, studs, tchs, exs, heap, heapT, subject, rand) ==
    LET teaching == {i \in 1..Len(tchs) : subject \in Range(heapT[tchs[i]].subjects)}
        free == {c \in 1..Len(rooms) : ~rooms[c].is_occupied}
        InPlan(s) == /\ heap[s].curriculum # 0
                     /\ subject \in Range(curs[heap[s].curriculum].required_subjects)
        eligible_students == SelectSeq(studs, InPlan)
        unchanged == ShellOutcome("None", rooms, log, studs, exs, heap, <<>>, 0)
    IN  IF teaching = {}
        THEN [unchanged EXCEPT !.raised = "EnrollmentError"]
        ELSE IF free = {}
        THEN [unchanged EXCEPT !.raised = "StateError"]
        ELSE IF eligible_students = <<>>
        THEN [unchanged EXCEPT !.raised = "EnrollmentError"]
        ELSE LET x == create_exam(exs, heapT, subject, tchs[Min(teaching)],
                                  Min(free), eligible_students)
             IN  IF x.raised # "None"
                 THEN [unchanged EXCEPT !.raised = x.raised]
                 ELSE LET c == conduct(curs, rooms, log, heap,
                                       x.exams[x.ret[1]], rand)
                      IN  IF c.raised # "None"
                          THEN ShellOutcome(c.raised, c.classrooms, c.roomLog, studs,
                                            x.exams, c.studentObj, <<>>, c.drawn)
                          ELSE ShellOutcome("None", c.classrooms, c.roomLog,
                                            ExpelAll(studs, c.ret), x.exams,
                                            c.studentObj, c.ret, c.drawn)

\* the grades the model lets randint return in the shell: one on each side
\* of the pass mark
ShellGrades == {PassGrade - 1, PassGrade}

\* main(), choice "8": nothing is called when the University has no
\* student; otherwise conduct_exam(uni), whose exception the loop catches
ConductExam(subject) ==
    IF students = <<>>
    THEN /\ last' = Call("conduct_exam", <<subject>>, "None", <<>>)
         /\ UNCHANGED <<universityVars, roomLog, inventory, studentObj, teacherObj,
                        storageVars, conducted, added>>
    ELSE /\ Len(exams) < MaxExams
         /\ \E rand \in [1..Len(students) -> ShellGrades] :
              LET r == conduct_exam(curriculums, classrooms, roomLog, students,
                                    teachers, exams, studentObj, teacherObj,
                                    subject, rand)
              IN  /\ classrooms' = r.classrooms
                  /\ roomLog' = r.roomLog
                  /\ students' = r.students
                  /\ exams' = r.exams
                  /\ studentObj' = r.studentObj
                  /\ conducted' = IF Len(r.exams) = Len(exams) THEN conducted
                                  ELSE Append(conducted,
                                              IF r.raised = "None" THEN "once"
                                              ELSE "never")
                  /\ last' = [op |-> "conduct_exam", args |-> <<subject>>,
                              raised |-> r.raised, ret |-> r.ret,
                              rand |-> SubSeq(rand, 1, r.drawn)]
         /\ UNCHANGED <<curriculums, teachers, inventory, teacherObj, storageVars,
                        added>>

\* add_subject_to_curriculum: "not found" is printed, nothing is raised,
\* when there is no such curriculum
AddSubjectToCurriculum(spec_name, subject) ==
    LET curr == get_curriculum(curriculums, spec_name)
        r == add_subject(curriculums[curr], subject)
    IN  /\ IF curr = 0
           THEN /\ curriculums' = curriculums
                /\ last' = Call("add_subject_to_curriculum", <<spec_name, subject>>,
                                "None", <<>>)
           ELSE /\ curriculums' = [curriculums EXCEPT ![curr] = r.self]
                /\ last' = Call("add_subject_to_curriculum", <<spec_name, subject>>,
                                r.raised, <<>>)
        /\ UNCHANGED <<classrooms, students, teachers, exams, inventory, roomLog,
                       studentObj, teacherObj, storageVars, conducted, added>>

\* main(): uni = load_data().  The University that load_data returns, scaled
\* down: the curricula "IT" with "OOP" and "CS" with "Math", a teacher of
\* both subjects and a teacher of "Math", at most one classroom, which is
\* Free, and at most one student, who follows "IT"
InitShell ==
    /\ curriculums = <<Curriculum("IT", <<"OOP">>), Curriculum("CS", <<"Math">>)>>
    /\ classrooms \in {<<>>, <<Classroom(101)>>}
    /\ roomLog = [c \in 1..Len(classrooms) |-> "none"]
    /\ studentObj \in {<<>>, <<Student(1)>>}
    /\ students = [s \in 1..Len(studentObj) |-> s]
    /\ teachers = <<1, 2>>
    /\ teacherObj = <<[subjects |-> <<"OOP", "Math">>], [subjects |-> <<"Math">>]>>
    /\ exams = <<>>
    /\ conducted = <<>>
    /\ inventory = <<>>
    /\ added = <<>>
    /\ NoStorage
    /\ last = NoCall

\* the menu of main(): add and remove a student, remove a teacher, add a
\* subject to a curriculum, add a classroom, conduct an exam
NextShell ==
    \/ \E spec \in {"it", ""} : EnrollStudent(spec)
    \/ \E student \in Range(students) : ExpelStudent(student)
    \/ \E teacher \in Range(teachers) : FireTeacher(teacher)
    \/ \E spec_name \in {"it", "CS"}, subject \in {"Math", "   "} :
          AddSubjectToCurriculum(spec_name, subject)
    \/ AddClassroom(101)
    \/ \E subject \in Subjects : ConductExam(subject)

SpecShell == InitShell /\ [][NextShell]_vars

----------------------------------------------------------------------------
(* Library claims *)

held(s) == Range(studentObj[s].borrowed_books)

\* the state outside the Library and the given student's object
LibraryFrame(s) ==
    /\ UNCHANGED <<universityVars, roomLog, teacherObj, storageVars, conducted, added>>
    /\ \A o \in DOMAIN studentObj \ {s} : studentObj'[o] = studentObj[o]
    /\ DOMAIN studentObj' = DOMAIN studentObj

\* lend_book(s, t) can succeed: the first entry titled t exists, has copies
\* left and is not held by s
CanLend(s, t) ==
    LET i == FindByTitle(inventory, t)
    IN  /\ i # 0
        /\ inventory[i].count > 0
        /\ inventory[i].book \notin held(s)

\* C4: in every reachable state and for every student and title,
\* lend_book(student, title) returns normally exactly when the first
\* inventory entry with that title exists, has count > 0 and is not held by
\* the student, and raises ResourceError otherwise (so it does whenever that
\* entry's count is 0, all copies being lent out); on success that entry's
\* count is lower by exactly 1 and the book is appended to the student's
\* held list.  And every step in which a lend_book returns normally is such
\* a loan and changes nothing else.
C4_LendBookContract ==
    /\ [](\A s \in DOMAIN studentObj, t \in Titles :
            LET i == FindByTitle(inventory, t)
                r == lend_book(inventory, studentObj[s], t)
            IN  /\ r.raised = (IF CanLend(s, t) THEN "None" ELSE "ResourceError")
                /\ CanLend(s, t) =>
                    /\ r.inventory = [inventory EXCEPT ![i].count = @ - 1]
                    /\ r.student =
                          [studentObj[s] EXCEPT
                              !.borrowed_books = Append(@, inventory[i].book)]
                /\ (i # 0 /\ inventory[i].count = 0) => r.raised = "ResourceError")
    /\ [][(last'.op = "lend_book" /\ last'.raised = "None") =>
            \E s \in DOMAIN studentObj, t \in Titles :
                LET i == FindByTitle(inventory, t)
                IN  /\ CanLend(s, t)
                    /\ inventory' = [inventory EXCEPT ![i].count = @ - 1]
                    /\ studentObj'[s] =
                          [studentObj[s] EXCEPT
                              !.borrowed_books = Append(@, inventory[i].book)]
                    /\ LibraryFrame(s)
         ]_vars

\* C4 witness: a lend_book was rejected in a state where every title's first
\* entry has no copy left, its copies being held by students, and a student
\* who holds none of them exists: whoever asked, for whichever title, was
\* turned down for lack of copies
C4_Witness ==
    /\ last.op = "lend_book"
    /\ last.raised = "ResourceError"
    /\ \A t \in Titles :
          LET i == FindByTitle(inventory, t)
          IN  /\ i # 0
              /\ inventory[i].count = 0
              /\ \E o \in DOMAIN studentObj : inventory[i].book \in held(o)
    /\ \E s \in DOMAIN studentObj : held(s) = {}

\* C5: a lend_book that raises ResourceError changes no inventory count and
\* no student's held list; and an inventory count only ever drops in a step
\* in which borrow_book succeeded, i.e. the book was appended to the held
\* list of a student who did not hold it.
C5_RejectedLoanKeepsInventory ==
    [][/\ (last'.op = "lend_book" /\ last'.raised # "None") =>
            (inventory' = inventory /\ studentObj' = studentObj)
       /\ last'.op = "lend_book" =>
            \A i \in 1..Len(inventory) :
                inventory'[i].count < inventory[i].count =>
                    \E s \in DOMAIN studentObj :
                        /\ inventory[i].book \notin held(s)
                        /\ studentObj'[s].borrowed_books =
                              Append(studentObj[s].borrowed_books, inventory[i].book)
      ]_vars

\* C5 witness: a lend_book was rejected in a state where every title's first
\* entry has copies left and every student holds that book already: whoever
\* asked, for whichever title, was turned down by Student.borrow_book
C5_Witness ==
    /\ last.op = "lend_book"
    /\ last.raised = "ResourceError"
    /\ \A t \in Titles :
          LET i == FindByTitle(inventory, t)
          IN  /\ i # 0
              /\ inventory[i].count > 0
              /\ \A s \in DOMAIN studentObj : inventory[i].book \in held(s)

\* accept_return(s, t) can succeed: the first entry titled t exists and s
\* holds that book
CanReturn(s, t) ==
    LET i == FindByTitle(inventory, t)
    IN  i # 0 /\ inventory[i].book \in held(s)

\* C6: in every reachable state and for every student and title,
\* accept_return(student, title) raises ResourceError and changes nothing if
\* no entry has that title or the student does not hold the matched book;
\* otherwise it removes the book from the student's held list and raises
\* that entry's count by exactly 1.  A successful lend_book(s, t) followed
\* at once by accept_return(s, t) succeeds and gives back the inventory and
\* the held list from before.  And every accept_return step is one of the
\* two: a failure that changes nothing, or such a return and nothing else.
C6_AcceptReturnContract ==
    /\ [](\A s \in DOMAIN studentObj, t \in Titles :
            LET i == FindByTitle(inventory, t)
                r == accept_return(inventory, studentObj[s], t)
                l == lend_book(inventory, studentObj[s], t)
                lr == accept_return(l.inventory, l.student, t)
            IN  /\ IF CanReturn(s, t)
                   THEN /\ r.raised = "None"
                        /\ r.inventory = [inventory EXCEPT ![i].count = @ + 1]
                        /\ r.student =
                              [studentObj[s] EXCEPT
                                  !.borrowed_books = RemoveFirst(@, inventory[i].book)]
                        /\ inventory[i].book \notin Range(r.student.borrowed_books)
                   ELSE /\ r.raised = "ResourceError"
                        /\ r.inventory = inventory
                        /\ r.student = studentObj[s]
                /\ l.raised = "None" =>
                        /\ lr.raised = "None"
                        /\ lr.inventory = inventory
                        /\ lr.student = studentObj[s])
    /\ [][last'.op = "accept_return" =>
            IF last'.raised = "None"
            THEN \E s \in DOMAIN studentObj, t \in Titles :
                    LET i == FindByTitle(inventory, t)
                    IN  /\ CanReturn(s, t)
                        /\ inventory' = [inventory EXCEPT ![i].count = @ + 1]
                        /\ studentObj'[s] =
                              [studentObj[s] EXCEPT
                                  !.borrowed_books = RemoveFirst(@, inventory[i].book)]
                        /\ LibraryFrame(s)
            ELSE /\ last'.raised = "ResourceError"
                 /\ inventory' = inventory
                 /\ studentObj' = studentObj
         ]_vars

\* C6 witness: a book was returned (its entry has a copy again) by a student
\* who still holds another book, listed before the returned one was
C6_Witness ==
    /\ last.op = "accept_return"
    /\ last.raised = "None"
    /\ \E s \in DOMAIN studentObj, t \in Titles :
          LET i == FindByTitle(inventory, t)
          IN  /\ i # 0
              /\ inventory[i].count > 0
              /\ inventory[i].book \notin held(s)
              /\ studentObj[s].borrowed_books # <<>>
              /\ \A o \in DOMAIN studentObj \ {s} : held(o) = {}

\* C16: every inventory count is >= 0 in every state reached by add_book
\* (with quantity >= 1), lend_book and accept_return calls, by any students
\* and in any order.
C16_CountsNeverNegative ==
    \A i \in 1..Len(inventory) : inventory[i].count >= 0

\* C16 witness: a loan took the last copy: every title's first entry is at
\* 0 and one student holds two books
C16_Witness ==
    /\ last.op = "lend_book"
    /\ last.raised = "None"
    /\ \A t \in Titles :
          \E i \in 1..Len(inventory) :
              inventory[i].book.title = t /\ inventory[i].count = 0
    /\ \E s \in DOMAIN studentObj : Len(studentObj[s].borrowed_books) = 2

\* the entry with the title that was inserted first, 0 if there is none
FirstInserted(t) ==
    IF \A i \in 1..Len(inventory) : inventory[i].book.title # t THEN 0
    ELSE CHOOSE i \in 1..Len(inventory) :
            /\ inventory[i].book.title = t
            /\ \A j \in 1..(i - 1) : inventory[j].book.title # t

\* the entries that have an earlier entry with the same title
Shadowed ==
    {j \in 1..Len(inventory) :
        \E i \in 1..(j - 1) : inventory[i].book.title = inventory[j].book.title}

\* C18: lend_book and accept_return look a book up by title only and act on
\* the first inventory entry with that title: for every student and title
\* they leave every other entry as it is; lend_book raises ResourceError
\* when that first entry's count is 0, whatever the count of a later entry
\* with the same title; and no lend_book or accept_return step changes an
\* entry that has an earlier entry with the same title.
C18_TitleLookupUsesFirstEntry ==
    /\ [](\A s \in DOMAIN studentObj, t \in Titles :
            LET i == FirstInserted(t)
                l == lend_book(inventory, studentObj[s], t)
                a == accept_return(inventory, studentObj[s], t)
            IN  /\ Len(l.inventory) = Len(inventory)
                /\ Len(a.inventory) = Len(inventory)
                /\ \A j \in 1..Len(inventory) :
                      j # i => /\ l.inventory[j] = inventory[j]
                               /\ a.inventory[j] = inventory[j]
                /\ (i # 0 /\ inventory[i].count = 0) =>
                      /\ l.raised = "ResourceError"
                      /\ l.inventory = inventory
                /\ l.raised = "None" =>
                      /\ i # 0
                      /\ l.inventory[i].count = inventory[i].count - 1
                      /\ l.student.borrowed_books =
                            Append(studentObj[s].borrowed_books, inventory[i].book)
                /\ a.raised = "None" =>
                      /\ i # 0
                      /\ a.inventory[i].count = inventory[i].count + 1)
    /\ [][last'.op \in {"lend_book", "accept_return"} =>
            /\ Len(inventory') = Len(inventory)
            /\ \A j \in Shadowed : inventory'[j] = inventory[j]
         ]_vars

\* C18 witness: the inventory holds two books titled "1984" and nothing
\* else; a loan has just taken the last copy of the one inserted first, the
\* second one has a copy, and a student who holds neither is there to ask
C18_Witness ==
    /\ last.op = "lend_book"
    /\ last.raised = "None"
    /\ Len(inventory) = 2
    /\ inventory[1].book.title = "1984"
    /\ inventory[2].book.title = "1984"
    /\ inventory[1].book # inventory[2].book
    /\ inventory[1].count = 0
    /\ inventory[2].count > 0
    /\ \E s \in DOMAIN studentObj : held(s) = {}

\* the students who hold the book
Holders(book) == {s \in DOMAIN studentObj : book \in held(s)}

\* C19: in every state reached from an empty library by add_book, lend_book
\* and accept_return alone, every book's inventory count plus the number of
\* students holding it equals the total quantity added for it, and no
\* student holds the same book twice.
C19_CopiesConserved ==
    /\ Len(added) = Len(inventory)
    /\ \A i \in 1..Len(inventory) :
          inventory[i].count + Cardinality(Holders(inventory[i].book)) = added[i]
    /\ \A s \in DOMAIN studentObj :
          LET books == studentObj[s].borrowed_books
          IN  /\ \A i, j \in 1..Len(books) : books[i] = books[j] => i = j
              /\ \A i \in 1..Len(books) :
                    \E k \in 1..Len(inventory) : inventory[k].book = books[i]

\* C19 witness: two copies of a book were added in all, both are lent out
\* to different students, and one of them was returned and lent again
C19_Witness ==
    /\ last.op = "lend_book"
    /\ last.raised = "None"
    /\ \E i \in 1..Len(inventory) :
          /\ added[i] = 2
          /\ inventory[i].count = 0
          /\ Cardinality(Holders(inventory[i].book)) = 2
    /\ \E i \in 1..Len(inventory) :
          /\ added[i] = 1
          /\ inventory[i].count = 1
          /\ Holders(inventory[i].book) = {}

----------------------------------------------------------------------------
(* Classroom, Student and Exam claims *)

\* the classroom of the exam that the call in `last` conducted
ConductedRoom == exams[last.args[1]].classroom

\* C1: whenever a call of conduct() has occupied the classroom (occupy did
\* not raise StateError), the classroom is Free when the call ends, whether
\* it returned or raised.
C1_ConductReleasesClassroom ==
    (last.op = "conduct" /\ last.raised # "StateError") =>
        ~classrooms[ConductedRoom].is_occupied

\* C3: whenever a call raises, the University's collections (classrooms'
\* occupied flags among them), the Library inventory and every Student's
\* record book and held list are exactly as before the call.
C3_NoPartialApplication ==
    [][last'.raised # "None" =>
          UNCHANGED <<universityVars, inventory, studentObj>>]_vars

\* C7: a classroom is Free when it is created; occupy() returns normally
\* exactly from Free and leaves the room Occupied, vacate() returns normally
\* exactly from Occupied and leaves it Free; otherwise they raise StateError
\* and the flag keeps its value.  Per room, successful calls alternate: the
\* successful call before a successful occupy, if any, was a vacate, and the
\* one before a successful vacate was an occupy.
C7_ClassroomStateMachine ==
    [][/\ (last'.op = "add_classroom" /\ last'.raised = "None") =>
            ~classrooms'[Len(classrooms')].is_occupied
       /\ \A c \in 1..Len(classrooms) :
            /\ (last'.op = "occupy" /\ last'.args = <<c>>) =>
                  IF ~classrooms[c].is_occupied
                  THEN /\ last'.raised = "None"
                       /\ classrooms'[c].is_occupied
                       /\ roomLog[c] \in {"none", "vacate"}
                  ELSE /\ last'.raised = "StateError"
                       /\ classrooms' = classrooms
            /\ (last'.op = "vacate" /\ last'.args = <<c>>) =>
                  IF classrooms[c].is_occupied
                  THEN /\ last'.raised = "None"
                       /\ ~classrooms'[c].is_occupied
                       /\ roomLog[c] = "occupy"
                  ELSE /\ last'.raised = "StateError"
                       /\ classrooms' = classrooms
            /\ (last'.op \in {"occupy", "vacate"} /\ last'.args # <<c>>) =>
                  classrooms'[c] = classrooms[c]
      ]_vars

\* C7 witness: vacate() raised StateError on a room that had been occupied
\* and vacated before
C7_Witness ==
    /\ last.op = "vacate"
    /\ last.raised = "StateError"
    /\ roomLog[last.args[1]] = "vacate"
    /\ ~classrooms[last.args[1]].is_occupied

\* the students of the roster whose grade is below 4, in roster order
RECURSIVE FailedFrom(_, _, _)
FailedFrom(roster, grades, i) ==
    IF i > Len(roster) THEN <<>>
    ELSE (IF grades[i] < 4 THEN <<roster[i]>> ELSE <<>>)
            \o FailedFrom(roster, grades, i + 1)

\* C8: a conduct() that returns normally has drawn one grade in 1..10 for
\* every registered student, in roster order; afterwards each of them has
\* that grade under the exam subject in the record book; the call returns
\* exactly the registered students whose grade was below 4, in roster
\* order; and University.students is what it was before the call.
C8_ConductGradesAndReturnsFailed ==
    [][(last'.op = "conduct" /\ last'.raised = "None") =>
          LET exam == exams[last'.args[1]]
              roster == exam.registered_students
              grades == last'.rand
          IN  /\ Len(grades) = Len(roster)
              /\ \A i \in 1..Len(roster) :
                    /\ grades[i] \in 1..10
                    /\ exam.subject \in DOMAIN studentObj'[roster[i]].record_book
                    /\ studentObj'[roster[i]].record_book[exam.subject] = grades[i]
              /\ last'.ret = FailedFrom(roster, grades, 1)
              /\ students' = students
      ]_vars

\* C8 witness: of two registered students the first passed and the second
\* failed; the second is returned and still on the University's list
C8_Witness ==
    /\ last.op = "conduct"
    /\ last.raised = "None"
    /\ Len(last.rand) = 2
    /\ last.rand[1] >= 4
    /\ last.rand[2] < 4
    /\ last.ret = <<exams[last.args[1]].registered_students[2]>>
    /\ last.ret[1] \in Range(students)

\* C9: conduct() on an exam whose classroom is Occupied raises StateError,
\* draws no grade, changes no student's record book (no Student object at
\* all) and leaves the classroom Occupied.
C9_ConductOnOccupiedRoom ==
    [][\A e \in 1..Len(exams) :
          (/\ last'.op = "conduct"
           /\ last'.args = <<e>>
           /\ classrooms[exams[e].classroom].is_occupied) =>
              /\ last'.raised = "StateError"
              /\ last'.rand = <<>>
              /\ last'.ret = <<>>
              /\ studentObj' = studentObj
              /\ classrooms' = classrooms
              /\ classrooms'[exams[e].classroom].is_occupied
      ]_vars

\* C9 witness: conduct() of an exam with registered students was rejected
\* with StateError and the room is still Occupied
C9_Witness ==
    /\ last.op = "conduct"
    /\ last.raised = "StateError"
    /\ exams[last.args[1]].registered_students # <<>>
    /\ classrooms[ConductedRoom].is_occupied

\* C17: an Exam has no "conducted" state.  When conduct() is called on an
\* exam of which an earlier conduct() returned normally and the classroom
\* is Free, the call returns normally (no StateError), draws a grade for
\* every registered student and records it in place of the earlier one,
\* returns exactly the students who failed this grading, in roster order,
\* and leaves the classroom Free.
C17_ReconductRegrades ==
    [][\A e \in 1..Len(exams) :
          (/\ last'.op = "conduct"
           /\ last'.args = <<e>>
           /\ conducted[e] # "never"
           /\ ~classrooms[exams[e].classroom].is_occupied) =>
              LET roster == exams[e].registered_students
                  grades == last'.rand
              IN  /\ last'.raised = "None"
                  /\ Len(grades) = Len(roster)
                  /\ \A i \in 1..Len(roster) :
                        /\ exams[e].subject \in DOMAIN studentObj[roster[i]].record_book
                        /\ studentObj'[roster[i]].record_book[exams[e].subject]
                              = grades[i]
                  /\ last'.ret = FailedFrom(roster, grades, 1)
                  /\ ~classrooms'[exams[e].classroom].is_occupied
                  /\ conducted'[e] = "again"
      ]_vars

\* C17 witness: an exam with two registered students was conducted a second
\* time; the second grading failed the first of them only
C17_Witness ==
    /\ last.op = "conduct"
    /\ last.raised = "None"
    /\ conducted[last.args[1]] = "again"
    /\ Len(last.rand) = 2
    /\ last.rand[1] < 4
    /\ last.rand[2] >= 4
    /\ last.ret = <<exams[last.args[1]].registered_students[1]>>
    /\ ~classrooms[ConductedRoom].is_occupied

\* C10: take_exam(subject, grade) raises ValueError (the ValidationError
\* kind) when grade is outside 0..10, whatever the subject; else raises
\* EnrollmentError when the student has a curriculum whose required subjects
\* do not include subject; else returns normally and the record book maps
\* subject to grade with every other entry as before.  A raising call
\* changes no Student object, a succeeding one only this record book.
C10_TakeExamContract ==
    [][\A s \in DOMAIN studentObj, subject \in Subjects, grade \in GradeInputs :
          (last'.op = "take_exam" /\ last'.args = <<s, subject, grade>>) =>
              LET self == studentObj[s]
                  before == self.record_book
                  after == studentObj'[s].record_book
              IN  IF grade < 0 \/ grade > 10
                  THEN last'.raised = "ValueError" /\ studentObj' = studentObj
                  ELSE IF /\ self.curriculum # 0
                          /\ subject \notin
                                Range(curriculums[self.curriculum].required_subjects)
                  THEN last'.raised = "EnrollmentError" /\ studentObj' = studentObj
                  ELSE /\ last'.raised = "None"
                       /\ DOMAIN after = DOMAIN before \cup {subject}
                       /\ after[subject] = grade
                       /\ \A k \in DOMAIN before \ {subject} : after[k] = before[k]
                       /\ studentObj' = [studentObj EXCEPT ![s].record_book = after]
      ]_vars

\* C10 witness: a grade outside 0..10 in a subject outside the student's
\* curriculum was rejected with ValueError, the earlier grade still recorded
C10_Witness ==
    /\ last.op = "take_exam"
    /\ last.raised = "ValueError"
    /\ LET self == studentObj[last.args[1]]
       IN  /\ self.curriculum # 0
           /\ last.args[2] \notin Range(curriculums[self.curriculum].required_subjects)
           /\ self.record_book # EmptyDict

----------------------------------------------------------------------------
(* Storage claim *)

\* C2: when save_data was interrupted between two of its steps and there was
\* a committed snapshot when it was entered, the next load_data returns that
\* committed University or the complete new one.
C2_CrashKeepsCommittedSnapshot ==
    [][(/\ last.op = "crash"
        /\ last.args[1] \in SaveSteps
        /\ last.args[2].complete
        /\ last'.op = "load_data") =>
            \/ Snapshot' \in last.args[2].data
            \/ Snapshot' = last.args[3]
      ]_vars

----------------------------------------------------------------------------
(* University claims *)

\* two names are equal ignoring case
EqualIgnoringCase(a, b) ==
    \E class \in {{"CS", "cs"}, {"IT"}, {""}, {"   "}} : a \in class /\ b \in class

\* the positions of the curricula whose name equals `name` ignoring case
Matching(name) ==
    {i \in 1..Len(curriculums) :
        EqualIgnoringCase(curriculums[i].specialty_name, name)}

\* C11: enroll_student(name, age, curriculum_name) raises EnrollmentError
\* and adds no student when no curriculum's name equals curriculum_name
\* ignoring case; otherwise it appends exactly one new Student, bound to the
\* first matching curriculum, with an empty record book, no held books and
\* scholarship 0, and returns it.  No other collection and no existing
\* Student changes.
C11_EnrollStudentContract ==
    [][\A name \in SpecialtyNames :
          (last'.op = "enroll_student" /\ last'.args = <<name>>) =>
              /\ UNCHANGED <<curriculums, classrooms, teachers, exams, inventory,
                             teacherObj>>
              /\ IF Matching(name) = {}
                 THEN /\ last'.raised = "EnrollmentError"
                      /\ students' = students
                      /\ studentObj' = studentObj
                 ELSE LET new == Len(studentObj) + 1
                      IN  /\ last'.raised = "None"
                          /\ last'.ret = <<new>>
                          /\ students' = Append(students, new)
                          /\ new \notin Range(students)
                          /\ DOMAIN studentObj' = 1..new
                          /\ \A o \in DOMAIN studentObj : studentObj'[o] = studentObj[o]
                          /\ studentObj'[new].curriculum = Min(Matching(name))
                          /\ studentObj'[new].record_book = EmptyDict
                          /\ studentObj'[new].borrowed_books = <<>>
                          /\ studentObj'[new].scholarship_amount = 0
      ]_vars

\* C11 witness: enroll_student("cs") has bound a second student to the
\* curriculum that was added as "CS", itself the second curriculum
C11_Witness ==
    /\ last.op = "enroll_student"
    /\ last.raised = "None"
    /\ last.args = <<"cs">>
    /\ Len(students) = 2
    /\ studentObj[last.ret[1]].curriculum = 2
    /\ curriculums[2].specialty_name = "CS"

\* C13: no two curricula of the University have names that are equal
\* ignoring case; add_curriculum raises ValueError (the ValidationError
\* kind) for a blank or whitespace-only name, else ResourceError when a
\* curriculum with that name ignoring case exists, adding nothing in both
\* cases; else it appends one curriculum with that name and no subject.
C13_CurriculumNamesUnique ==
    /\ [](\A i, j \in 1..Len(curriculums) :
            EqualIgnoringCase(curriculums[i].specialty_name,
                              curriculums[j].specialty_name) => i = j)
    /\ [][\A name \in SpecialtyNames :
            (last'.op = "add_curriculum" /\ last'.args = <<name>>) =>
                IF name \in {"", "   "}
                THEN last'.raised = "ValueError" /\ curriculums' = curriculums
                ELSE IF Matching(name) # {}
                THEN last'.raised = "ResourceError" /\ curriculums' = curriculums
                ELSE /\ last'.raised = "None"
                     /\ curriculums' = Append(curriculums, Curriculum(name, <<>>))
         ]_vars

\* C13 witness: add_curriculum("cs") was rejected with ResourceError in a
\* University that has the curricula "IT" and "CS"
C13_Witness ==
    /\ last.op = "add_curriculum"
    /\ last.raised = "ResourceError"
    /\ last.args = <<"cs">>
    /\ Len(curriculums) = 2
    /\ curriculums[2].specialty_name = "CS"

\* C12: create_exam(subject, teacher, classroom, students) raises
\* EnrollmentError and registers no exam when subject is not among the
\* teacher's subjects; otherwise it appends exactly one Exam with that
\* subject, teacher, classroom and roster to University.exams and returns
\* it.  In both cases every classroom's occupied flag and every student's
\* record book (every Student object) are as before.
C12_CreateExamContract ==
    [][\A subject \in ExamSubjects, teacher \in DOMAIN teacherObj,
          classroom \in 1..Len(classrooms), studs \in RosterInputs :
          (/\ last'.op = "create_exam"
           /\ last'.args = <<subject, teacher, classroom, studs>>) =>
              /\ classrooms' = classrooms
              /\ studentObj' = studentObj
              /\ UNCHANGED <<curriculums, students, teachers, teacherObj, inventory>>
              /\ IF \A i \in 1..Len(teacherObj[teacher].subjects) :
                        teacherObj[teacher].subjects[i] # subject
                 THEN /\ last'.raised = "EnrollmentError"
                      /\ exams' = exams
                 ELSE /\ last'.raised = "None"
                      /\ Len(exams') = Len(exams) + 1
                      /\ SubSeq(exams', 1, Len(exams)) = exams
                      /\ exams'[Len(exams')].subject = subject
                      /\ exams'[Len(exams')].teacher = teacher
                      /\ exams'[Len(exams')].classroom = classroom
                      /\ exams'[Len(exams')].registered_students = studs
                      /\ last'.ret = <<Len(exams')>>
      ]_vars

\* C12 witness: an exam with a non-empty roster was registered while its
\* classroom was Occupied and a student on the roster had a grade recorded
C12_Witness ==
    /\ last.op = "create_exam"
    /\ last.raised = "None"
    /\ LET exam == exams[last.ret[1]]
       IN  /\ exam.registered_students # <<>>
           /\ classrooms[exam.classroom].is_occupied
           /\ studentObj[exam.registered_students[1]].record_book # EmptyDict

----------------------------------------------------------------------------
(* Scholarship claim *)

\* the sum of the grades of a record book
RECURSIVE GradeSum(_)
GradeSum(book) ==
    IF DOMAIN book = {} THEN 0
    ELSE LET k == CHOOSE k \in DOMAIN book : TRUE
         IN  book[k] + GradeSum([j \in DOMAIN book \ {k} |-> book[j]])

\* 100 times the number of subjects times base * (1 + (average - min) * 0.1)
\* with min = 6 and base = 100: amount * 100 * n for the exact amount
ExactHundredthsTimesCount(book) ==
    1000 * (4 * Cardinality(DOMAIN book) + GradeSum(book))

\* the student's average is at least the minimum 6
Qualifies(book) ==
    /\ DOMAIN book # {}
    /\ GradeSum(book) >= 6 * Cardinality(DOMAIN book)

\* the list the call in last' handed to calculate_and_assign
AssignedList ==
    IF last'.op = "calculate_and_assign" THEN last'.args[1]
    ELSE IF last'.op = "process_semester_end" THEN students
    ELSE <<>>

\* what a scholarship step leaves alone: every list, and of every Student
\* everything but the scholarship, which changes for the listed ones only
ScholarshipFrame ==
    /\ UNCHANGED <<universityVars, inventory, teacherObj>>
    /\ DOMAIN studentObj' = DOMAIN studentObj
    /\ \A s \in DOMAIN studentObj :
          /\ studentObj' [s].record_book = studentObj[s].record_book
          /\ studentObj' [s].curriculum = studentObj[s].curriculum
          /\ studentObj' [s].borrowed_books = studentObj[s].borrowed_books
          /\ s \notin Range(AssignedList) => studentObj'[s] = studentObj[s]

\* C15 as claimed: calculate_and_assign gives every student in the list 0
\* when the average is below 6 and exactly 100 * (1 + (average - 6) * 0.1)
\* otherwise, overwriting the previous amount; process_semester_end does so
\* for University.students and changes nothing when that list is empty.
C15_ExactScholarship ==
    [][last'.op \in {"calculate_and_assign", "process_semester_end"} =>
          /\ ScholarshipFrame
          /\ \A s \in Range(AssignedList) :
                LET book == studentObj[s].record_book
                    n == Cardinality(DOMAIN book)
                IN  IF Qualifies(book)
                    THEN studentObj'[s].scholarship_amount * n
                            = ExactHundredthsTimesCount(book)
                    ELSE studentObj'[s].scholarship_amount = 0
      ]_vars

\* C15 amended: as above, with the amount rounded to 2 decimal places, i.e.
\* the amount in hundredths is the integer nearest to the exact value; an
\* average of 8 yields 120.00 and an average of 4 yields 0.
C15_RoundedScholarship ==
    [][last'.op \in {"calculate_and_assign", "process_semester_end"} =>
          /\ ScholarshipFrame
          /\ \A s \in Range(AssignedList) :
                LET book == studentObj[s].record_book
                    n == Cardinality(DOMAIN book)
                    amount == studentObj'[s].scholarship_amount
                    diff == amount * n - ExactHundredthsTimesCount(book)
                IN  /\ IF Qualifies(book)
                       THEN amount \in Nat /\ 2 * diff < n /\ 2 * (-diff) < n
                       ELSE amount = 0
                    /\ (n > 0 /\ GradeSum(book) = 8 * n) => amount = 12000
                    /\ (n > 0 /\ GradeSum(book) = 4 * n) => amount = 0
      ]_vars

\* C15 witness: process_semester_end ran over a roster from which one
\* student had been expelled: the student left on it, with 4, 8 and 8 in the
\* record book, has 106.67; the expelled one, averaging 8, keeps an award
\* of 100.00 from before
C15_Witness ==
    /\ last.op = "process_semester_end"
    /\ students = <<2>>
    /\ GradeSum(studentObj[2].record_book) = 20
    /\ Cardinality(DOMAIN studentObj[2].record_book) = 3
    /\ studentObj[2].scholarship_amount = 10667
    /\ GradeSum(studentObj[1].record_book) = 16
    /\ Cardinality(DOMAIN studentObj[1].record_book) = 2
    /\ studentObj[1].scholarship_amount = 10000

----------------------------------------------------------------------------
(* Shell claim *)

\* the students of the University who have the subject in their curriculum
Eligible(subject) ==
    {s \in Range(students) :
        /\ studentObj[s].curriculum # 0
        /\ \E i \in 1..Len(curriculums[studentObj[s].curriculum].required_subjects) :
              curriculums[studentObj[s].curriculum].required_subjects[i] = subject}

\* C20: in the shell every classroom is Free after every command, the exam
\* commands that end with an error included.  A conduct_exam command that
\* registers an exam gives it a classroom that is Free, a teacher who
\* teaches the subject and exactly the students whose curriculum has the
\* subject; the exam then completes, and every student it returns as failed
\* is no longer in University.students while every other student still is.
C20_ShellLeaksNoClassroom ==
    /\ [](\A c \in 1..Len(classrooms) : ~classrooms[c].is_occupied)
    /\ [][\A subject \in Subjects :
            (/\ last'.op = "conduct_exam"
             /\ last'.args = <<subject>>
             /\ Len(exams') # Len(exams)) =>
                LET exam == exams'[Len(exams')]
                IN  /\ Len(exams') = Len(exams) + 1
                    /\ exam.subject = subject
                    /\ ~classrooms[exam.classroom].is_occupied
                    /\ exam.teacher \in Range(teachers)
                    /\ subject \in Range(teacherObj[exam.teacher].subjects)
                    /\ Range(exam.registered_students) = Eligible(subject)
                    /\ last'.raised = "None"
                    /\ Len(last'.rand) = Len(exam.registered_students)
                    /\ \A i \in 1..Len(exam.registered_students) :
                          LET s == exam.registered_students[i]
                          IN  /\ studentObj'[s].record_book[subject] = last'.rand[i]
                              /\ (last'.rand[i] < PassGrade) <=> s \in Range(last'.ret)
                    /\ Range(students') = Range(students) \ Range(last'.ret)
         ]_vars

\* C20 witness: an exam of two students was held and completed; the one who
\* failed is off the University's list, the other one is on it, and the
\* classroom of the exam was occupied, vacated and is Free
C20_Witness ==
    /\ last.op = "conduct_exam"
    /\ last.raised = "None"
    /\ Len(exams) = 1
    /\ Len(exams[1].registered_students) = 2
    /\ Len(last.ret) = 1
    /\ last.ret[1] \notin Range(students)
    /\ students # <<>>
    /\ roomLog[exams[1].classroom] = "vacate"
    /\ ~classrooms[exams[1].classroom].is_occupied

====
